---- MODULE Spec2Model ----
(***************************************************************************)
(* Storage combinators (src/src/base.py): the storage contract             *)
(* get/put/merge/delete_at, the leaf stores (DictStore, DiskStoreText,     *)
(* DiskStoreBytes), and the combinators built on them (BaseMappingStore,   *)
(* JSONStore, PickleStore, FilePathMapper, Switch, SchemeSwitch,           *)
(* FirstPathSwitch, CacheStore).                                           *)
(*                                                                         *)
(* Python values are records [t, c]: t is the Python type, c the value's   *)
(* content as a sequence of one-character tokens.  A store object is the   *)
(* sequence of class names of its construction, outermost first.  The      *)
(* filesystem maps a normalised path to the file's content; text files    *)
(* are read and written as Python does on a POSIX host (os.linesep is LF). *)
(***************************************************************************)
EXTENDS Integers, Sequences, FiniteSets, TLC

VARIABLES top, data, fs, last

vars == <<top, data, fs, last>>

(***************************************************************************)
(* Bounds                                                                  *)
(***************************************************************************)
MaxStrLen == 1

(***************************************************************************)
(* Sequences of tokens                                                     *)
(***************************************************************************)
Last(s) == s[Len(s)]

Front(s) == SubSeq(s, 1, Len(s) - 1)

RECURSIVE SeqsUpTo(_, _)
SeqsUpTo(S, n) ==
    IF n = 0 THEN {<<>>}
    ELSE LET shorter == SeqsUpTo(S, n - 1)
         IN shorter \cup {Append(s, x) : s \in {t \in shorter : Len(t) = n - 1}, x \in S}

(***************************************************************************)
(* Python values                                                           *)
(***************************************************************************)
Str(c) == [t |-> "str", c |-> c]

Bytes(c) == [t |-> "bytes", c |-> c]

IntV(c) == [t |-> "int", c |-> c]

ListV(c) == [t |-> "list", c |-> c]

TupleV(c) == [t |-> "tuple", c |-> c]

StoreV(o) == [t |-> "store", c |-> o]

None == [t |-> "NoneType", c |-> <<>>]

\* a call's outcome: it returned, or the exception class it raised
OK == "ok"

(***************************************************************************)
(* json.dumps / json.loads on the values above                             *)
(***************************************************************************)
Digits == {"1", "2"}

JSONWhitespace == {" ", "CR", "LF"}

RECURSIVE json_escape(_)
json_escape(c) ==
    IF c = <<>> THEN <<>>
    ELSE LET h == Head(c)
             e == CASE h = "CR" -> <<"\\", "r">>
                    [] h = "LF" -> <<"\\", "n">>
                    [] h = "\"" -> <<"\\", "\"">>
                    [] h = "\\" -> <<"\\", "\\">>
                    [] OTHER -> <<h>>
         IN e \o json_escape(Tail(c))

\* the body of a JSON string literal: [ok, c]; raw quotes, raw control
\* characters and unknown escapes are malformed
RECURSIVE json_unescape(_)
json_unescape(c) ==
    IF c = <<>> THEN [ok |-> TRUE, c |-> <<>>]
    ELSE LET h == Head(c)
         IN IF h = "\\"
            THEN IF Len(c) < 2 \/ c[2] \notin {"r", "n", "\"", "\\"}
                 THEN [ok |-> FALSE, c |-> <<>>]
                 ELSE LET rest == json_unescape(SubSeq(c, 3, Len(c)))
                          d == CASE c[2] = "r" -> "CR"
                                 [] c[2] = "n" -> "LF"
                                 [] OTHER -> c[2]
                      IN [ok |-> rest.ok, c |-> <<d>> \o rest.c]
            ELSE IF h \in {"\"", "CR", "LF"}
                 THEN [ok |-> FALSE, c |-> <<>>]
                 ELSE LET rest == json_unescape(Tail(c))
                      IN [ok |-> rest.ok, c |-> <<h>> \o rest.c]

RECURSIVE json_join(_)
json_join(items) ==
    IF Len(items) <= 1 THEN items
    ELSE <<Head(items), ",", " ">> \o json_join(Tail(items))

\* the elements of a JSON array of integers: [ok, c]
RECURSIVE json_items(_)
json_items(c) ==
    IF c = <<>> THEN [ok |-> TRUE, c |-> <<>>]
    ELSE IF Head(c) \in JSONWhitespace THEN json_items(Tail(c))
    ELSE IF Head(c) \notin Digits THEN [ok |-> FALSE, c |-> <<>>]
    ELSE LET after == SelectSeq(Tail(c), LAMBDA x : x \notin JSONWhitespace)
         IN IF after = <<>> THEN [ok |-> TRUE, c |-> <<Head(c)>>]
            ELSE IF Head(after) # "," \/ Len(after) < 2
                 THEN [ok |-> FALSE, c |-> <<>>]
                 ELSE LET rest == json_items(Tail(after))
                      IN [ok |-> rest.ok, c |-> <<Head(c)>> \o rest.c]

RECURSIVE json_strip(_)
json_strip(c) ==
    IF c = <<>> THEN c
    ELSE IF Head(c) \in JSONWhitespace THEN json_strip(Tail(c))
    ELSE IF Last(c) \in JSONWhitespace THEN json_strip(Front(c))
    ELSE c

\* json.dumps(obj): [out, ret]
json_dumps(obj) ==
    CASE obj.t = "NoneType" -> [out |-> OK, ret |-> Str(<<"null">>)]
      [] obj.t = "int" -> [out |-> OK, ret |-> Str(obj.c)]
      [] obj.t = "str" -> [out |-> OK, ret |-> Str(<<"\"">> \o json_escape(obj.c) \o <<"\"">>)]
      [] obj.t \in {"list", "tuple"} ->
            [out |-> OK, ret |-> Str(<<"[">> \o json_join(obj.c) \o <<"]">>)]
      [] OTHER -> [out |-> "TypeError", ret |-> None]

\* json.loads(s): [out, ret]
json_loads(s) ==
    IF s.t \notin {"str", "bytes"} THEN [out |-> "TypeError", ret |-> None]
    ELSE LET c == json_strip(s.c)
             bad == [out |-> "JSONDecodeError", ret |-> None]
         IN CASE c = <<"null">> -> [out |-> OK, ret |-> None]
              [] Len(c) = 1 /\ c[1] \in Digits -> [out |-> OK, ret |-> IntV(c)]
              [] Len(c) >= 2 /\ c[1] = "\"" /\ Last(c) = "\"" ->
                    LET u == json_unescape(SubSeq(c, 2, Len(c) - 1))
                    IN IF u.ok THEN [out |-> OK, ret |-> Str(u.c)] ELSE bad
              [] Len(c) >= 2 /\ c[1] = "[" /\ Last(c) = "]" ->
                    LET u == json_items(SubSeq(c, 2, Len(c) - 1))
                    IN IF u.ok THEN [out |-> OK, ret |-> ListV(u.c)] ELSE bad
              [] OTHER -> bad

(***************************************************************************)
(* pickle.dumps / pickle.loads: the pickle names the object's type and     *)
(* carries its content                                                     *)
(***************************************************************************)
pickle_dumps(obj) == [out |-> OK, ret |-> Bytes(<<"PKL", obj.t>> \o obj.c)]

pickle_loads(b) ==
    IF b.t # "bytes" THEN [out |-> "TypeError", ret |-> None]
    ELSE IF Len(b.c) >= 2 /\ b.c[1] = "PKL"
              /\ b.c[2] \in {"str", "bytes", "int", "list", "tuple", "NoneType", "store"}
         THEN [out |-> OK, ret |-> [t |-> b.c[2], c |-> SubSeq(b.c, 3, Len(b.c))]]
         ELSE [out |-> "UnpicklingError", ret |-> None]

(***************************************************************************)
(* Reference                                                               *)
(***************************************************************************)
Reference(scheme, path) == [t |-> "Reference", scheme |-> scheme, path |-> path]

RECURSIVE lstrip(_, _)
lstrip(s, ch) == IF s # <<>> /\ Head(s) = ch THEN lstrip(Tail(s), ch) ELSE s

\* str.split(sep): the pieces between the separators, empty ones included
RECURSIVE split(_, _)
split(s, sep) ==
    IF \A i \in 1..Len(s) : s[i] # sep THEN <<s>>
    ELSE LET i == CHOOSE k \in 1..Len(s) : s[k] = sep /\ \A j \in 1..(k - 1) : s[j] # sep
         IN <<SubSeq(s, 1, i - 1)>> \o split(SubSeq(s, i + 1, Len(s)), sep)

path_components(ref) == split(lstrip(ref.path, "/"), "/")

(***************************************************************************)
(* pathlib: a path is [abs, parts]; a part is the token sequence of a name *)
(***************************************************************************)
DotSuffixes == {".txt", ".tmp"}

Path(s) ==
    [abs |-> s # <<>> /\ Head(s) = "/",
     parts |-> SelectSeq(split(s, "/"), LAMBDA part : part # <<>> /\ part # <<".">>)]

RECURSIVE join_parts(_)
join_parts(parts) ==
    IF parts = <<>> THEN <<>>
    ELSE IF Len(parts) = 1 THEN parts[1]
    ELSE parts[1] \o <<"/">> \o join_parts(Tail(parts))

as_posix(p) ==
    IF p.parts = <<>> THEN (IF p.abs THEN <<"/">> ELSE <<".">>)
    ELSE (IF p.abs THEN <<"/">> ELSE <<>>) \o join_parts(p.parts)

\* PurePath.name and PurePath.suffix
path_name(p) == IF p.parts = <<>> THEN <<>> ELSE Last(p.parts)

path_suffix(p) ==
    LET name == path_name(p)
    IN IF Len(name) >= 2 /\ Last(name) \in DotSuffixes THEN <<Last(name)>> ELSE <<>>

\* PurePath.with_suffix(suffix): [out, ret]
with_suffix(p, suffix) ==
    IF path_name(p) = <<>> THEN [out |-> "ValueError", ret |-> p]
    ELSE LET name == path_name(p)
             stem == IF path_suffix(p) = <<>> THEN name ELSE Front(name)
         IN [out |-> OK,
             ret |-> [abs |-> p.abs, parts |-> Front(p.parts) \o <<stem \o <<suffix>>>>]]

\* PurePath.__truediv__
truediv(base, other) ==
    IF other.abs THEN other
    ELSE [abs |-> base.abs, parts |-> base.parts \o other.parts]

(***************************************************************************)
(* Files: fs maps the posix form of a path to the file's content.  A step  *)
(* named in the injected set f fails with OSError; a failing write has     *)
(* truncated the file when "torn" is in f as well.                         *)
(***************************************************************************)
fs_store(files, k, content) ==
    [x \in DOMAIN files \cup {k} |-> IF x = k THEN content ELSE files[x]]

fs_remove(files, k) == [x \in DOMAIN files \ {k} |-> files[x]]

\* text mode, newline=None: CR LF and CR are read as LF
RECURSIVE universal_newlines(_)
universal_newlines(c) ==
    IF c = <<>> THEN <<>>
    ELSE IF Head(c) = "CR"
         THEN IF Len(c) >= 2 /\ c[2] = "LF"
              THEN <<"LF">> \o universal_newlines(SubSeq(c, 3, Len(c)))
              ELSE <<"LF">> \o universal_newlines(Tail(c))
         ELSE <<Head(c)>> \o universal_newlines(Tail(c))

\* Path.read_text / Path.read_bytes of the file at k: [out, ret]
read_file(text, files, k, f, step) ==
    IF k \notin DOMAIN files THEN [out |-> "FileNotFoundError", ret |-> None]
    ELSE IF step \in f THEN [out |-> "OSError", ret |-> None]
    ELSE [out |-> OK,
          ret |-> IF text THEN Str(universal_newlines(files[k])) ELSE Bytes(files[k])]

\* Path.write_text / Path.write_bytes: [out, fs]
write_file(text, files, k, obj, f, step) ==
    IF obj.t # (IF text THEN "str" ELSE "bytes") THEN [out |-> "TypeError", fs |-> files]
    ELSE IF step \in f
         THEN [out |-> "OSError",
               fs |-> IF "torn" \in f THEN fs_store(files, k, <<>>) ELSE files]
    ELSE [out |-> OK, fs |-> fs_store(files, k, obj.c)]

\* Path.unlink: [out, fs]
unlink(files, k, f, step) ==
    IF k \notin DOMAIN files THEN [out |-> "FileNotFoundError", fs |-> files]
    ELSE IF step \in f THEN [out |-> "OSError", fs |-> files]
    ELSE [out |-> OK, fs |-> fs_remove(files, k)]

\* Path.rename: [out, fs]
rename(files, src, dst, f, step) ==
    IF src \notin DOMAIN files THEN [out |-> "FileNotFoundError", fs |-> files]
    ELSE IF step \in f THEN [out |-> "OSError", fs |-> files]
    ELSE [out |-> OK, fs |-> fs_store(fs_remove(files, src), dst, files[src])]

(***************************************************************************)
(* Results of a call: the world after it (w = [data, fs]), the outcome     *)
(* (OK or the exception raised), the value returned, the calls made on     *)
(* store objects in order (<<object, operation>>), and the filesystem      *)
(* steps that failed by injection.                                         *)
(***************************************************************************)
Returned(w, ret) == [w |-> w, out |-> OK, ret |-> ret, calls |-> <<>>, failed |-> {}]

Raised(w, exc) == [w |-> w, out |-> exc, ret |-> None, calls |-> <<>>, failed |-> {}]

Injected(out, step) == IF out = "OSError" THEN {step} ELSE {}

\* the result of a filesystem read rd = [out, ret]
FromRead(w, rd, step) ==
    [w |-> w, out |-> rd.out, ret |-> rd.ret, calls |-> <<>>, failed |-> Injected(rd.out, step)]

\* the result of a filesystem change u = [out, fs]; out is what the call raises
FromChange(w, u, out, failed) ==
    [w |-> [w EXCEPT !.fs = u.fs], out |-> out, ret |-> None, calls |-> <<>>, failed |-> failed]

\* r2 was called after r1 returned
Then(r1, r2) == [r2 EXCEPT !.calls = r1.calls \o r2.calls, !.failed = r1.failed \cup r2.failed]

(***************************************************************************)
(* DictStore: _data maps the key (ref.scheme, ref.path) to the object      *)
(***************************************************************************)
DictStores == {"dictA", "dictB", "router", "dictJ", "dictP"}

\* data holds the _data of every DictStore and the keys of the Redis server
Tables == DictStores \cup {"redis"}

DictStore_key(ref) == <<ref.scheme, ref.path>>

dict_set(d, key, obj) == [k \in DOMAIN d \cup {key} |-> IF k = key THEN obj ELSE d[k]]

dict_del(d, key) == [k \in DOMAIN d \ {key} |-> d[k]]

DictStore_get(name, ref, w) ==
    IF ref.t # "Reference" THEN Raised(w, "AttributeError")
    ELSE IF DictStore_key(ref) \in DOMAIN w.data[name]
         THEN Returned(w, w.data[name][DictStore_key(ref)])
         ELSE Raised(w, "KeyError")

DictStore_put(name, ref, obj, w) ==
    IF ref.t # "Reference" THEN Raised(w, "AttributeError")
    ELSE Returned([w EXCEPT !.data[name] = dict_set(@, DictStore_key(ref), obj)], None)

DictStore_merge(name, ref, obj, w) ==
    IF ref.t # "Reference" THEN Raised(w, "AttributeError")
    ELSE Returned([w EXCEPT !.data[name] = dict_set(@, DictStore_key(ref), obj)], None)

\* mutant: delete_at without the try/except around the del statement
DictStore_delete_at_unguarded(name, ref, w) ==
    IF ref.t # "Reference" THEN Raised(w, "AttributeError")
    ELSE IF DictStore_key(ref) \in DOMAIN w.data[name]
         THEN Returned([w EXCEPT !.data[name] = dict_del(@, DictStore_key(ref))], None)
         ELSE Raised(w, "KeyError")

\* every exception of the del statement is swallowed
DictStore_delete_at(name, ref, w) ==
    IF ref.t # "Reference" THEN Returned(w, None)
    ELSE IF DictStore_key(ref) \in DOMAIN w.data[name]
         THEN Returned([w EXCEPT !.data[name] = dict_del(@, DictStore_key(ref))], None)
         ELSE Returned(w, None)

(***************************************************************************)
(* DiskStoreText / DiskStoreBytes (text = TRUE for the text variant).      *)
(* target and temp are the posix forms of target_path and temp_path.       *)
(***************************************************************************)
DiskStore_get(text, ref, w, f) ==
    IF ref.t # "Reference" THEN Raised(w, "AttributeError")
    ELSE FromRead(w, read_file(text, w.fs, as_posix(Path(ref.path)), f, "read"), "read")

unlinked(w, u) == FromChange(w, u, u.out, Injected(u.out, "unlink"))

DiskStoreBase_delete_at(ref, w, f) ==
    IF ref.t # "Reference" THEN Raised(w, "AttributeError")
    ELSE unlinked(w, unlink(w.fs, as_posix(Path(ref.path)), f, "unlink"))

\* the except clause, last statements: temp_path.unlink(); raise e
put_raise(w, e, failed, w2, u2) ==
    FromChange(w, u2, IF u2.out = OK THEN e ELSE u2.out,
               failed \cup (IF w2.out = OK THEN Injected(u2.out, "unlink_tmp") ELSE {}))

\* the except clause after target_path.unlink(): target_path.write_text(old_data)
put_repaired(w, temp, e, f, failed, w2) ==
    put_raise(w, e, failed, w2,
              IF w2.out = OK THEN unlink(w2.fs, temp, f, "unlink_tmp") ELSE w2)

put_repair(text, w, target, temp, old_data, e, f, failed, u1) ==
    put_repaired(w, temp, e, f,
                 failed \cup Injected(u1.out, "unlink_old")
                        \cup (IF old_data # None /\ u1.out = OK /\ "write_old" \in f
                              THEN {"write_old"} ELSE {}),
                 IF old_data # None /\ u1.out = OK
                 THEN write_file(text, u1.fs, target, old_data, f, "write_old")
                 ELSE u1)

\* the except clause: if old_data is not None: target_path.unlink() ...
put_except(text, w, files, target, temp, old_data, e, f, failed) ==
    put_repair(text, w, target, temp, old_data, e, f, failed,
               IF old_data # None THEN unlink(files, target, f, "unlink_old")
               ELSE [out |-> OK, fs |-> files])

\* after temp_path.rename(target_path), or after the read that raised before it
put_renamed(text, w, files, target, temp, rd, f, rn) ==
    IF rn.out = OK THEN Returned([w EXCEPT !.fs = rn.fs], None)
    ELSE put_except(text, w, files, target, temp,
                    IF rd.out = OK THEN rd.ret ELSE None, rn.out, f,
                    IF rd.out = OK THEN Injected(rn.out, "rename")
                    ELSE Injected(rd.out, "read_old"))

\* the try block after the staging of old_data (rd: the read of the old data)
put_staged(text, w, files, target, temp, f, rd) ==
    put_renamed(text, w, files, target, temp, rd, f,
                IF rd.out = OK THEN rename(files, temp, target, f, "rename")
                ELSE [out |-> rd.out, fs |-> files])

\* after temp_path.write_text(obj), which is outside the try block
put_written(text, w, target, temp, f, w1) ==
    IF w1.out # OK THEN FromChange(w, w1, w1.out, Injected(w1.out, "write_tmp"))
    ELSE put_staged(text, w, w1.fs, target, temp, f,
                    IF target \in DOMAIN w1.fs
                    THEN read_file(text, w1.fs, target, f, "read_old")
                    ELSE [out |-> OK, ret |-> None])

put_temp(text, obj, w, f, target, ws) ==
    IF ws.out # OK THEN Raised(w, ws.out)
    ELSE put_written(text, w, target, as_posix(ws.ret), f,
                     write_file(text, w.fs, as_posix(ws.ret), obj, f, "write_tmp"))

DiskStore_put(text, ref, obj, w, f) ==
    IF ref.t # "Reference" THEN Raised(w, "AttributeError")
    ELSE put_temp(text, obj, w, f, as_posix(Path(ref.path)),
                  with_suffix(Path(ref.path), ".tmp"))

DiskStoreBase_merge(text, ref, obj, w, f) == DiskStore_put(text, ref, obj, w, f)

(***************************************************************************)
(* The hooks of the mapping stores                                         *)
(***************************************************************************)
MappingStores == {"BaseMappingStore", "JSONStore", "PickleStore", "FilePathMapper"}

\* FilePathMapper.base_dir
base_dir == Path(<<"d">>)

FilePathMapper_map_ref(ref) ==
    Reference(ref.scheme, as_posix(truediv(base_dir, Path(ref.path))))

map_ref(cls, ref) == IF cls = "FilePathMapper" THEN FilePathMapper_map_ref(ref) ELSE ref

map_to_store(cls, obj) ==
    CASE cls = "JSONStore" -> json_dumps(obj)
      [] cls = "PickleStore" -> pickle_dumps(obj)
      [] OTHER -> [out |-> OK, ret |-> obj]

map_retrieved(cls, obj) ==
    CASE cls = "JSONStore" -> json_loads(obj)
      [] cls = "PickleStore" -> pickle_loads(obj)
      [] OTHER -> [out |-> OK, ret |-> obj]

source(o) == Tail(o)

\* no store argument is passed to the constructor
NoStore == <<>>

\* the default of the parameter store is the DictStore() that the def
\* statement evaluated once: every call without a store gets that object
JSONStore(store) == <<"JSONStore">> \o (IF store = NoStore THEN <<"dictJ">> ELSE store)

PickleStore(store) == <<"PickleStore">> \o (IF store = NoStore THEN <<"dictP">> ELSE store)

(***************************************************************************)
(* Switch: o = <<class, router table>>                                     *)
(***************************************************************************)
Switches == {"SchemeSwitch", "FirstPathSwitch"}

\* the property Switch.backing_store returns nothing; SchemeSwitch overrides it
Switch_backing_store(o) == None

SchemeSwitch_backing_store(o) == StoreV(Tail(o))

backing_store(o) ==
    IF Head(o) = "SchemeSwitch" THEN SchemeSwitch_backing_store(o)
    ELSE Switch_backing_store(o)

reference_switch_logic(o, ref) ==
    IF Head(o) = "SchemeSwitch" THEN Str(<<ref.scheme>>)
    ELSE Str(path_components(ref)[1])

(***************************************************************************)
(* CacheStore: o = <<"CacheStore", base, cache>>                           *)
(***************************************************************************)
CacheStore_base(o) == <<o[2]>>

CacheStore_cache(o) == <<o[3]>>

(***************************************************************************)
(* The storage contract on a store object o: Call dispatches on the class  *)
(* of o as Python's method resolution does, and records the call.          *)
(***************************************************************************)
RECURSIVE Call(_, _, _, _, _, _)

retrieved(got, mapped) ==
    IF got.out # OK THEN got ELSE [got EXCEPT !.out = mapped.out, !.ret = mapped.ret]

BaseMappingStore_get(o, ref, w, f) ==
    LET got == Call(source(o), "get", map_ref(Head(o), ref), None, w, f)
    IN retrieved(got, map_retrieved(Head(o), got.ret))

BaseMappingStore_put(o, ref, obj, w, f) ==
    LET mapped == map_to_store(Head(o), obj)
    IN IF mapped.out # OK THEN Raised(w, mapped.out)
       ELSE Call(source(o), "put", map_ref(Head(o), ref), mapped.ret, w, f)

BaseMappingStore_merge(o, ref, obj, w, f) ==
    LET mapped == map_to_store(Head(o), obj)
    IN IF mapped.out # OK THEN Raised(w, mapped.out)
       ELSE Call(source(o), "merge", map_ref(Head(o), ref), mapped.ret, w, f)

BaseMappingStore_delete_at(o, ref, w, f) ==
    Call(source(o), "delete_at", map_ref(Head(o), ref), None, w, f)

\* backing_store.get(...): the attribute get of None does not exist
store_for_ref(o, ref, w, f) ==
    IF backing_store(o) = None THEN Raised(w, "AttributeError")
    ELSE Call(backing_store(o).c, "get", reference_switch_logic(o, ref), None, w, f)

Switch_op(o, op, ref, obj, w, f) ==
    LET s == store_for_ref(o, ref, w, f)
    IN IF s.out # OK THEN s
       ELSE IF s.ret.t # "store" THEN [s EXCEPT !.out = "AttributeError", !.ret = None]
       ELSE Then(s, Call(s.ret.c, op, ref, obj, s.w, f))

\* mutant: a read-through cache, which stores what it read from the base
CacheStore_get_readthrough(o, ref, w, f) ==
    LET val == Call(CacheStore_cache(o), "get", ref, None, w, f)
        based == Call(CacheStore_base(o), "get", ref, None, val.w, f)
    IN IF val.out = OK /\ val.ret # None THEN val
       ELSE IF based.out # OK THEN Then(val, based)
       ELSE [Then(val, based) EXCEPT
                !.w = Call(CacheStore_cache(o), "put", ref, based.ret, based.w, f).w]

\* mutant: get without the test "val is not None" and without the try/except
CacheStore_get_trusting(o, ref, w, f) ==
    Call(CacheStore_cache(o), "get", ref, None, w, f)

CacheStore_get(o, ref, w, f) ==
    LET val == Call(CacheStore_cache(o), "get", ref, None, w, f)
    IN IF val.out = OK /\ val.ret # None THEN val
       ELSE Then(val, Call(CacheStore_base(o), "get", ref, None, val.w, f))

\* mutant: the base is written whatever became of the cache
CacheStore_write_unconditional(o, op, ref, obj, w, f) ==
    LET c == Call(CacheStore_cache(o), op, ref, obj, w, f)
    IN Then(c, Call(CacheStore_base(o), op, ref, obj, c.w, f))

\* mutant: delete_at evicts from the cache only
CacheStore_write_evicting(o, op, ref, obj, w, f) ==
    LET c == Call(CacheStore_cache(o), op, ref, obj, w, f)
    IN IF c.out # OK \/ op = "delete_at" THEN c
       ELSE Then(c, Call(CacheStore_base(o), op, ref, obj, c.w, f))

\* put, merge and delete_at: the cache, then the base
CacheStore_write(o, op, ref, obj, w, f) ==
    LET c == Call(CacheStore_cache(o), op, ref, obj, w, f)
    IN IF c.out # OK THEN c
       ELSE Then(c, Call(CacheStore_base(o), op, ref, obj, c.w, f))

(***************************************************************************)
(* RedisConnectionPool: the server maps ref.path to bytes; get of a        *)
(* missing key returns None and delete of a missing key does nothing       *)
(***************************************************************************)
\* what the client sends for a value: [out, ret]
redis_encode(obj) ==
    IF obj.t \in {"str", "bytes", "int"} THEN [out |-> OK, ret |-> Bytes(obj.c)]
    ELSE [out |-> "DataError", ret |-> None]

redis_set(w, key, enc) ==
    IF enc.out # OK THEN Raised(w, enc.out)
    ELSE Returned([w EXCEPT !.data["redis"] = dict_set(@, key, enc.ret)], None)

RedisConnectionPool_get(ref, w) ==
    IF ref.t # "Reference" THEN Raised(w, "AttributeError")
    ELSE IF ref.path \in DOMAIN w.data["redis"] THEN Returned(w, w.data["redis"][ref.path])
    ELSE Returned(w, None)

RedisConnectionPool_put(ref, obj, w) ==
    IF ref.t # "Reference" THEN Raised(w, "AttributeError")
    ELSE redis_set(w, ref.path, redis_encode(obj))

\* the body of merge is pass
RedisConnectionPool_merge(ref, obj, w) == Returned(w, None)

RedisConnectionPool_delete_at(ref, w) ==
    IF ref.t # "Reference" THEN Raised(w, "AttributeError")
    ELSE Returned([w EXCEPT !.data["redis"] = dict_del(@, ref.path)], None)

(***************************************************************************)
(* The reified operations and the filters of a LoggingStore                *)
(***************************************************************************)
RestOperation(op, ref) == [operation |-> op, ref |-> ref]

GetOperation(ref) == RestOperation("GET", ref)

PutOperation(ref) == RestOperation("PUT", ref)

MergeOperation(ref) == RestOperation("MERGE", ref)

DeleteOperation(ref) == RestOperation("DELETE", ref)

\* c = <<"Copier", source, target>>
Copier_source(c) == <<c[2]>>

Copier_target(c) == <<c[3]>>

\* self.target.put(ref, self.source.get(ref)), with got the result of the get
Copier_copy(c, op, ref, got, f) ==
    IF got.out # OK THEN got
    ELSE Then(got, Call(Copier_target(c), op, ref, got.ret, got.w, f))

\* the call of write is recorded as <<"Copier", op>>
written(c, op, r) == [r EXCEPT !.calls = <<<<Head(c), op>>>> \o r.calls]

\* mutant: write ignores DELETE operations as it ignores GET
Copier_write_keeping(c, op, w, f) ==
    written(c, op,
        CASE op.operation = "PUT" ->
               Copier_copy(c, "put", op.ref,
                           Call(Copier_source(c), "get", op.ref, None, w, f), f)
          [] op.operation = "MERGE" ->
               Copier_copy(c, "merge", op.ref,
                           Call(Copier_source(c), "get", op.ref, None, w, f), f)
          [] OTHER -> Returned(w, None))

\* the else branch raising ValueError follows "!= GET" and "== GET"
Copier_write(c, op, w, f) ==
    written(c, op,
        IF op.operation # "GET"
        THEN CASE op.operation = "PUT" ->
                    Copier_copy(c, "put", op.ref,
                                Call(Copier_source(c), "get", op.ref, None, w, f), f)
               [] op.operation = "MERGE" ->
                    Copier_copy(c, "merge", op.ref,
                                Call(Copier_source(c), "get", op.ref, None, w, f), f)
               [] op.operation = "DELETE" ->
                    Call(Copier_target(c), "delete_at", op.ref, None, w, f)
               [] OTHER -> Returned(w, None)
        ELSE IF op.operation = "GET" THEN Returned(w, None)
        ELSE Raised(w, "ValueError"))

(***************************************************************************)
(* LoggingStore: o = <<"LoggingStore", target, target of the Copier>>, the *)
(* filter being Copier(source = target, target = o[3])                     *)
(***************************************************************************)
LoggingStore_other(o) == <<o[2]>>

filter_(o) == <<"Copier", o[2], o[3]>>

Operation(op, ref) ==
    CASE op = "get" -> GetOperation(ref)
      [] op = "put" -> PutOperation(ref)
      [] op = "merge" -> MergeOperation(ref)
      [] op = "delete_at" -> DeleteOperation(ref)

\* val: the result of super().op(ref, obj); wr: the result of filter_.write
logged(val, wr) == [Then(val, wr) EXCEPT !.ret = IF wr.out = OK THEN val.ret ELSE None]

\* mutant: the filter is written to whether the target raised or not
LoggingStore_op_always(o, op, ref, obj, w, f) ==
    LET val == Call(LoggingStore_other(o), op, ref, obj, w, f)
    IN [logged(val, Copier_write(filter_(o), Operation(op, ref), val.w, f))
           EXCEPT !.out = val.out]

\* mutant: a failure of the filter is swallowed
LoggingStore_op_quiet(o, op, ref, obj, w, f) ==
    LET val == Call(LoggingStore_other(o), op, ref, obj, w, f)
    IN IF val.out # OK THEN val
       ELSE [logged(val, Copier_write(filter_(o), Operation(op, ref), val.w, f))
                EXCEPT !.out = OK]

\* get, put, merge and delete_at: the target, then the filter
LoggingStore_op(o, op, ref, obj, w, f) ==
    LET val == Call(LoggingStore_other(o), op, ref, obj, w, f)
    IN IF val.out # OK THEN val
       ELSE logged(val, Copier_write(filter_(o), Operation(op, ref), val.w, f))

Dispatch(o, op, ref, obj, w, f) ==
    LET cls == Head(o)
    IN CASE cls \in DictStores ->
              (CASE op = "get" -> DictStore_get(cls, ref, w)
                 [] op = "put" -> DictStore_put(cls, ref, obj, w)
                 [] op = "merge" -> DictStore_merge(cls, ref, obj, w)
                 [] op = "delete_at" -> DictStore_delete_at(cls, ref, w))
         [] cls \in {"DiskStoreText", "DiskStoreBytes"} ->
              (CASE op = "get" -> DiskStore_get(cls = "DiskStoreText", ref, w, f)
                 [] op = "put" -> DiskStore_put(cls = "DiskStoreText", ref, obj, w, f)
                 [] op = "merge" -> DiskStoreBase_merge(cls = "DiskStoreText", ref, obj, w, f)
                 [] op = "delete_at" -> DiskStoreBase_delete_at(ref, w, f))
         [] cls \in MappingStores ->
              (CASE op = "get" -> BaseMappingStore_get(o, ref, w, f)
                 [] op = "put" -> BaseMappingStore_put(o, ref, obj, w, f)
                 [] op = "merge" -> BaseMappingStore_merge(o, ref, obj, w, f)
                 [] op = "delete_at" -> BaseMappingStore_delete_at(o, ref, w, f))
         [] cls \in Switches -> Switch_op(o, op, ref, obj, w, f)
         [] cls = "CacheStore" ->
              (CASE op = "get" -> CacheStore_get(o, ref, w, f)
                 [] OTHER -> CacheStore_write(o, op, ref, obj, w, f))
         [] cls = "LoggingStore" -> LoggingStore_op(o, op, ref, obj, w, f)
         [] cls = "RedisConnectionPool" ->
              (CASE op = "get" -> RedisConnectionPool_get(ref, w)
                 [] op = "put" -> RedisConnectionPool_put(ref, obj, w)
                 [] op = "merge" -> RedisConnectionPool_merge(ref, obj, w)
                 [] op = "delete_at" -> RedisConnectionPool_delete_at(ref, w))

called(o, op, r) == [r EXCEPT !.calls = <<<<Head(o), op>>>> \o r.calls]

Call(o, op, ref, obj, w, f) == called(o, op, Dispatch(o, op, ref, obj, w, f))

(***************************************************************************)
(* Callers: the objects a program constructs, and what it passes           *)
(***************************************************************************)
Leaves == {"dictA", "DiskStoreText", "DiskStoreBytes"}

\* every leaf store of the repository
Endpoints == Leaves \cup {"RedisConnectionPool"}

Layers == {<<>>, <<"BaseMappingStore">>, <<"JSONStore">>, <<"PickleStore">>,
           <<"FilePathMapper">>, <<"JSONStore", "FilePathMapper">>}

Stacks == {layers \o <<leaf>> : layers \in Layers, leaf \in Leaves}

Caches == {<<"CacheStore", "dictB", "dictA">>, <<"CacheStore", "DiskStoreText", "dictA">>,
           <<"CacheStore", "dictB", "DiskStoreText">>}

Routers == {<<"SchemeSwitch", "router">>, <<"FirstPathSwitch", "router">>}

\* instances constructed without an explicit inner store
Defaults == {JSONStore(NoStore), PickleStore(NoStore)}

Loggers == {<<"LoggingStore", "dictA", "dictB">>, <<"LoggingStore", "dictA", "DiskStoreText">>,
            <<"LoggingStore", "DiskStoreText", "dictB">>}

\* a combinator over two DictStores that start with equal contents
Mirrors == {<<"CacheStore", "dictB", "dictA">>, <<"LoggingStore", "dictA", "dictB">>}

\* the operations a caller can hand to write: any string is accepted as op
Operations == {RestOperation(op, ref) :
                  op \in {"GET", "PUT", "MERGE", "DELETE", "PATCH"},
                  ref \in {Reference("file", p) : p \in {<<"a", ".txt">>, <<"a", ".tmp">>}}}

\* the stores a caller passed to the constructor of o and still holds
Components(o) ==
    CASE Head(o) = "CacheStore" -> {CacheStore_base(o), CacheStore_cache(o)}
      [] Head(o) \in Switches -> {<<"dictA">>, <<"dictB">>}
      [] OTHER -> {}

UsesDisk(o) == \E i \in 1..Len(o) : o[i] \in {"DiskStoreText", "DiskStoreBytes"}

File == <<"a", ".txt">>

Refs(o) ==
    IF Head(o) \in Switches
    THEN {Reference(s, p) : s \in {"a", "b", "c"}, p \in {<<"a", "/", "f">>, <<"c", "/", "f">>}}
    ELSE IF Head(o) = "CacheStore"
    THEN {Reference("file", p) : p \in {File, <<"b", ".txt">>}}
    ELSE IF Head(o) = "FilePathMapper"
    THEN {Reference("file", p) : p \in {File, <<"/", "a", ".txt">>}}
    ELSE {Reference("file", p) : p \in {File, <<"a", ".tmp">>}}

Texts == {Str(c) : c \in SeqsUpTo({"x", "CR"}, MaxStrLen)}

Objs(o) ==
    CASE Head(o) \in Switches \cup {"CacheStore"} -> {None, Str(<<"x">>)}
      [] Head(o) = "LoggingStore" -> {None, Str(<<"x">>), Str(<<"CR">>)}
      [] Len(o) = 1 /\ UsesDisk(o) -> Texts \cup {Bytes(<<"x">>), Bytes(<<"CR">>), None}
      [] OTHER -> Texts \cup {Bytes(<<"x">>), None, ListV(<<"1", "2">>), TupleV(<<"1">>)}

\* what a caller passes to a store it holds besides top
DirectRefs(o) == IF Head(o) \in Switches THEN {Reference("a", <<"a", "/", "f">>)} ELSE Refs(o)

\* the faults of one put: the try block stops at its first fault and the
\* except clause at its first, so one of each is every case there is
PutFaults ==
    {{}, {"write_tmp"}, {"write_tmp", "torn"}}
        \cup {{m} \cup h : m \in {"read_old", "rename"},
                           h \in {{}, {"unlink_old"}, {"write_old"}, {"write_old", "torn"},
                                  {"unlink_tmp"}}}

\* the faults injected into a call of op on a store of the object top; merge
\* on a file store is put, and is run with the first faults of put only
Faults(op) ==
    IF ~UsesDisk(top) THEN {{}}
    ELSE CASE op = "get" -> {{}, {"read"}}
           [] op = "delete_at" -> {{}, {"unlink"}}
           [] Len(top) > 1 \/ op = "merge" -> {{}, {"write_tmp"}, {"rename"}}
           [] OTHER -> PutFaults

World == [data |-> data, fs |-> fs]

Empty == [k \in {} |-> None]

\* the router table registers dictA for "a" and dictB for "b": under the keys
\* "a" and "b" themselves, or by router.put(Reference("a", ""), dictA)
RouterTables ==
    {[k \in {<<"a">>, <<"b">>} |->
         IF k = <<"a">> THEN StoreV(<<"dictA">>) ELSE StoreV(<<"dictB">>)],
     [k \in {<<"a", <<>>>>, <<"b", <<>>>>} |->
         IF k = <<"a", <<>>>> THEN StoreV(<<"dictA">>) ELSE StoreV(<<"dictB">>)]}

Constructed(objects) ==
    /\ top \in objects
    /\ \E table \in RouterTables :
          data = [name \in Tables |->
                     IF name = "router" /\ Head(top) \in Switches THEN table ELSE Empty]
    /\ fs = Empty
    /\ last = [on |-> <<>>, op |-> "init", ref |-> Reference("", <<>>), obj |-> None,
               out |-> OK, ret |-> None, calls |-> <<>>, failed |-> {}, changed |-> FALSE]

Init == Constructed(Stacks)

\* the caller observes the result r of the call of op on o
Observe(o, op, ref, obj, r) ==
    /\ data' = r.w.data
    /\ fs' = r.w.fs
    /\ last' = [on |-> o, op |-> op, ref |-> ref, obj |-> obj, out |-> r.out,
                ret |-> r.ret, calls |-> r.calls, failed |-> r.failed,
                changed |-> r.w # World]
    /\ UNCHANGED top

Do(o, op, ref, obj, f) == Observe(o, op, ref, obj, Call(o, op, ref, obj, World, f))

Get == \E ref \in Refs(top), f \in Faults("get") : Do(top, "get", ref, None, f)

Put == \E ref \in Refs(top), obj \in Objs(top), f \in Faults("put") :
          Do(top, "put", ref, obj, f)

Merge == \E ref \in Refs(top), obj \in Objs(top), f \in Faults("merge") :
            Do(top, "merge", ref, obj, f)

DeleteAt == \E ref \in Refs(top), f \in Faults("delete_at") :
               Do(top, "delete_at", ref, None, f)

\* a call made directly on a store that top was constructed from
Direct ==
    \E o \in Components(top), op \in {"put", "delete_at"}, ref \in DirectRefs(top),
       obj \in Objs(top) :
        \E f \in Faults(op) : Do(o, op, ref, IF op = "put" THEN obj ELSE None, f)

\* a call of write on the filter of the logging store top
Write ==
    /\ Head(top) = "LoggingStore"
    /\ \E op \in Operations, f \in Faults("put") :
          Observe(filter_(top), "write", op.ref, None,
                  Copier_write(filter_(top), op, World, f))

Next == Get \/ Put \/ Merge \/ DeleteAt

Spec == Init /\ [][Next]_vars

NextDirect == Next \/ Direct

SpecLeaf == Constructed({<<leaf>> : leaf \in Leaves}) /\ [][Next]_vars

SpecCache == Constructed(Caches) /\ [][NextDirect]_vars

SpecSwitch == Constructed(Routers) /\ [][NextDirect]_vars

SpecMerge == Constructed({<<leaf>> : leaf \in Endpoints}) /\ [][Next]_vars

SpecDefault == Constructed(Defaults) /\ [][Next]_vars

\* every call is made through top
SpecMirror == Constructed(Mirrors) /\ [][Next]_vars

NextWrite == Next \/ Write

SpecLog == Constructed(Loggers) /\ [][NextWrite]_vars

(***************************************************************************)
(* Properties.  Each is stated on the calls a caller can make in the       *)
(* current state: Call is evaluated on World for every input.              *)
(***************************************************************************)
DiskStores == {<<"DiskStoreText">>, <<"DiskStoreBytes">>}

Writes == {"put", "merge", "delete_at"}

Key(ref) == as_posix(Path(ref.path))

TempKey(ref) == as_posix(with_suffix(Path(ref.path), ".tmp").ret)

Calls(r, tok) == {i \in 1..Len(r.calls) : r.calls[i][1] = tok}

\* C1: put(r, v) followed immediately by get(r) on the same store returns a
\* value equal to v, for DictStore, DiskStoreText, DiskStoreBytes and every
\* stack of mapping stores over them.
C1_RoundTrip ==
    \A ref \in Refs(top), obj \in Objs(top) :
        LET p == Call(top, "put", ref, obj, World, {})
            g == Call(top, "get", ref, None, p.w, {})
        IN p.out = OK => g.out = OK /\ g.ret = obj

\* C2: after a DiskStore put returns or raises, the file at r's path holds
\* exactly v (put returned) or exactly what it held before (put raised),
\* whichever filesystem step failed.
C2_PutAllOrNothing ==
    top \in DiskStores =>
        \A ref \in Refs(top), obj \in Objs(top), f \in PutFaults :
            LET r == Call(top, "put", ref, obj, World, f)
                k == Key(ref)
            IN IF r.out = OK
               THEN k \in DOMAIN r.w.fs /\ r.w.fs[k] = obj.c
               ELSE /\ (k \in DOMAIN r.w.fs) = (k \in DOMAIN fs)
                    /\ k \in DOMAIN fs => r.w.fs[k] = fs[k]

\* C3: if old is stored at r and the rename step of put(r, new) fails, put
\* raises, a following get(r) returns old, and the temporary file of that
\* put no longer exists.
C3_RenameFailureRestores ==
    top \in DiskStores =>
        \A ref \in Refs(top), obj \in Objs(top) :
            LET old == Call(top, "get", ref, None, World, {})
                r == Call(top, "put", ref, obj, World, {"rename"})
                g == Call(top, "get", ref, None, r.w, {})
            IN old.out = OK /\ "rename" \in r.failed =>
                  /\ r.out # OK
                  /\ g.out = OK /\ g.ret = old.ret
                  /\ TempKey(ref) \notin DOMAIN r.w.fs

\* C4: delete_at(r) where nothing is stored at r returns without error and
\* changes nothing on a DictStore, however often it is repeated; on a
\* DiskStoreText or DiskStoreBytes it raises and leaves the files unchanged.
C4_DeleteMissing ==
    \A ref \in Refs(top), f \in Faults("delete_at") :
        LET r == Call(top, "delete_at", ref, None, World, f)
            again == Call(top, "delete_at", ref, None, r.w, f)
        IN Len(top) = 1 /\ Call(top, "get", ref, None, World, {}).out # OK =>
              IF top \in DiskStores
              THEN r.out # OK /\ r.w = World
              ELSE r.out = OK /\ r.w = World /\ again.out = OK /\ again.w = World

\* a delete_at on a DictStore that found nothing to delete
C4_Witness ==
    /\ top = <<"dictA">> /\ last.on = top /\ last.op = "delete_at"
    /\ last.out = OK /\ ~last.changed
    /\ \E ref \in Refs(top) : Call(top, "get", ref, None, World, {}).out = OK

\* C5: when the cache holds nothing at r and the base holds v at r,
\* CacheStore.get(r) returns v and changes neither the cache, which still
\* holds nothing at r, nor the base.
C5_NoReadThrough ==
    Head(top) = "CacheStore" =>
        \A ref \in Refs(top) :
            LET c == Call(CacheStore_cache(top), "get", ref, None, World, {})
                b == Call(CacheStore_base(top), "get", ref, None, World, {})
                r == Call(top, "get", ref, None, World, {})
            IN c.out # OK /\ b.out = OK =>
                  /\ r.out = OK /\ r.ret = b.ret
                  /\ r.w = World
                  /\ Call(CacheStore_cache(top), "get", ref, None, r.w, {}).out # OK

\* a get through the cache store returned the base's value, the cache empty
C5_Witness ==
    /\ Head(top) = "CacheStore" /\ last.on = top /\ last.op = "get" /\ last.out = OK
    /\ Call(CacheStore_cache(top), "get", last.ref, None, World, {}).out # OK
    /\ last.ret = Call(CacheStore_base(top), "get", last.ref, None, World, {}).ret
    /\ last.ret # None

\* C6: CacheStore.get(r) returns the cache's value when cache.get(r) returns
\* one that is not None, without reading the base; when cache.get(r) raises
\* or returns None its result is exactly that of base.get(r), failure
\* included.
C6_CacheFallback ==
    Head(top) = "CacheStore" =>
        \A ref \in Refs(top), f \in Faults("get") :
            LET c == Call(CacheStore_cache(top), "get", ref, None, World, f)
                b == Call(CacheStore_base(top), "get", ref, None, World, f)
                r == Call(top, "get", ref, None, World, f)
            IN IF c.out = OK /\ c.ret # None
               THEN r.out = OK /\ r.ret = c.ret /\ Calls(r, top[2]) = {}
               ELSE r.out = b.out /\ r.ret = b.ret

\* the cache raised and the caller got the base's own failure
C6_Witness ==
    /\ Head(top) = "CacheStore" /\ last.on = top /\ last.op = "get"
    /\ last.out = "KeyError"
    /\ Call(CacheStore_cache(top), "get", last.ref, None, World, {}).out = "FileNotFoundError"

\* C7 as claimed: put, merge and delete_at apply the operation to both
\* stores, the cache first, whatever fails on either side.
C7_BothSidesAlways ==
    Head(top) = "CacheStore" =>
        \A op \in Writes, ref \in Refs(top), obj \in Objs(top) :
            \A f \in Faults(op) :
                LET r == Call(top, op, ref, obj, World, f)
                IN /\ Calls(r, top[3]) # {} /\ Calls(r, top[2]) # {}
                   /\ \A i \in Calls(r, top[3]), j \in Calls(r, top[2]) : i < j

\* C7 as amended: put, merge and delete_at call the cache first; when the
\* cache's operation raises, that failure is the call's and the base is not
\* called; when it returns, the base is called next and what the cache did
\* stays whether the base's operation returns or raises.
C7_CacheThenBase ==
    Head(top) = "CacheStore" =>
        \A op \in Writes, ref \in Refs(top), obj \in Objs(top) :
            \A f \in Faults(op) :
                LET r == Call(top, op, ref, obj, World, f)
                    c == Call(CacheStore_cache(top), op, ref, obj, World, f)
                    b == Call(CacheStore_base(top), op, ref, obj, c.w, f)
                IN /\ r.calls[2] = <<top[3], op>>
                   /\ IF c.out # OK
                      THEN r.out = c.out /\ r.w = c.w /\ Calls(r, top[2]) = {}
                      ELSE /\ r.calls[3] = <<top[2], op>>
                           /\ r.out = b.out /\ r.w = b.w

\* the base raised after the cache had been changed, and the change stayed
C7_Witness ==
    /\ Head(top) = "CacheStore" /\ last.on = top /\ last.op \in Writes
    /\ last.out # OK /\ Calls(last, top[2]) # {} /\ last.changed

\* C8: with the router table registering dictA for "a" and dictB for "b",
\* every operation of a SchemeSwitch with a reference of scheme "a" is the
\* operation of dictA with the same reference and value, and neither calls
\* dictB nor changes it.
C8_SchemeRouting ==
    Head(top) = "SchemeSwitch" =>
        \A op \in Writes \cup {"get"}, ref \in Refs(top), obj \in Objs(top) :
            LET r == Call(top, op, ref, obj, World, {})
                d == Call(<<"dictA">>, op, ref, obj, World, {})
            IN ref.scheme = "a" =>
                  /\ r.out = d.out /\ r.ret = d.ret /\ r.w = d.w
                  /\ Calls(r, "dictA") # {} /\ Calls(r, "dictB") = {}

\* C9: every operation of that SchemeSwitch with a reference of the
\* unregistered scheme "c" raises KeyError and changes no store.
C9_UnregisteredScheme ==
    Head(top) = "SchemeSwitch" =>
        \A op \in Writes \cup {"get"}, ref \in Refs(top), obj \in Objs(top) :
            LET r == Call(top, op, ref, obj, World, {})
            IN ref.scheme = "c" => r.out = "KeyError" /\ r.w = World

\* C10: a FirstPathSwitch delegates every operation to the store registered
\* under the first path component of the reference, so that put(r, v)
\* followed by get(r) through the switch returns v from that store.
C10_FirstPathRouting ==
    Head(top) = "FirstPathSwitch" =>
        \A ref \in Refs(top), obj \in Objs(top) :
            LET p == Call(top, "put", ref, obj, World, {})
                g == Call(top, "get", ref, None, p.w, {})
            IN path_components(ref)[1] = <<"a">> =>
                  /\ p.out = OK /\ Calls(p, "dictA") # {}
                  /\ g.out = OK /\ g.ret = obj /\ Calls(g, "dictA") # {}

\* what the leaf store named leaf holds in the world w
Contents(leaf, w) == IF leaf \in DictStores THEN w.data[leaf] ELSE w.fs

VerbOf == [get |-> "GET", put |-> "PUT", merge |-> "MERGE", delete_at |-> "DELETE"]

\* C11: with L = LoggingStore(S, Copier(source = S, target = X)), after
\* L.put(r, v) returns, X.get(r) returns v; and L.get(r) calls no put, merge
\* or delete_at of X and leaves the contents of X unchanged.
C11_PutReplicated ==
    Head(top) = "LoggingStore" =>
        \A ref \in Refs(top), obj \in Objs(top) :
            LET p == Call(top, "put", ref, obj, World, {})
                x == Call(<<top[3]>>, "get", ref, None, p.w, {})
                g == Call(top, "get", ref, None, World, {})
            IN /\ p.out = OK => x.out = OK /\ x.ret = obj
               /\ \A i \in Calls(g, top[3]) : g.calls[i][2] = "get"
               /\ Contents(top[3], g.w) = Contents(top[3], World)

\* C12: Copier.write(op) raises ValueError whenever op.operation is not one
\* of GET, PUT, MERGE, DELETE, and then calls no operation of its source or
\* target and changes nothing.
C12_UnsupportedOperation ==
    Head(top) = "LoggingStore" =>
        \A op \in Operations :
            LET r == Copier_write(filter_(top), op, World, {})
            IN op.operation \notin {"GET", "PUT", "MERGE", "DELETE"} =>
                  r.out = "ValueError" /\ Len(r.calls) = 1 /\ r.w = World

\* C13: every get, put, merge and delete_at of a LoggingStore first calls the
\* operation on the wrapped target; when that has returned the filter is
\* written to next, exactly once, with an operation whose verb is that of
\* the call and whose ref is the call's reference; when the target raised,
\* the filter is not written to and the caller gets the target's exception.
C13_TargetThenFilter ==
    Head(top) = "LoggingStore" =>
        \A op \in Writes \cup {"get"}, ref \in Refs(top), obj \in Objs(top) :
            \A f \in Faults(op) :
                LET r == Call(top, op, ref, obj, World, f)
                    t == Call(LoggingStore_other(top), op, ref, obj, World, f)
                IN /\ SubSeq(r.calls, 2, Len(t.calls) + 1) = t.calls
                   /\ IF t.out = OK
                      THEN /\ Calls(r, "Copier") = {Len(t.calls) + 2}
                           /\ r.calls[Len(t.calls) + 2][2].operation = VerbOf[op]
                           /\ r.calls[Len(t.calls) + 2][2].ref = ref
                      ELSE Calls(r, "Copier") = {} /\ r.out = t.out /\ r.w = t.w

\* a put through the logging store returned and its filter was written to
C13_Witness ==
    /\ Head(top) = "LoggingStore" /\ last.on = top /\ last.op = "put" /\ last.out = OK
    /\ Calls(last, "Copier") # {} /\ last.changed

\* the token sequence s begins with the token sequence prefix
StartsWith(s, prefix) == Len(s) >= Len(prefix) /\ SubSeq(s, 1, Len(prefix)) = prefix

\* the paths at which the world w holds something that the world w0 does not
NewPaths(w0, w) ==
    (DOMAIN w.fs \ DOMAIN w0.fs)
        \cup {k[2] : k \in DOMAIN w.data["dictA"] \ DOMAIN w0.data["dictA"]}

\* C14: for every reference r, one whose path begins with "/" included,
\* FilePathMapper.map_ref(r) has the scheme of r and as path the base
\* directory followed by the path components of r, so that every put and
\* merge through a FilePathMapper stores only at paths under the base
\* directory.
C14_UnderBaseDir ==
    Head(top) = "FilePathMapper" =>
        \A ref \in Refs(top), obj \in Objs(top), op \in {"put", "merge"} :
            LET m == map_ref(Head(top), ref)
                r == Call(top, op, ref, obj, World, {})
            IN /\ m.scheme = ref.scheme
               /\ m.path = as_posix(base_dir) \o <<"/">> \o lstrip(ref.path, "/")
               /\ \A k \in NewPaths(World, r.w) :
                     StartsWith(k, as_posix(base_dir) \o <<"/">>)

\* C15: on every leaf store (DictStore, DiskStoreText, DiskStoreBytes,
\* RedisConnectionPool) merge(r, v) has the effect of put(r, v): from any
\* state the two leave the same state and the same outcome, so that get(r)
\* after merge(r, v) returns what get(r) after put(r, v) returns.
C15_MergeIsPut ==
    Len(top) = 1 =>
        \A ref \in Refs(top), obj \in Objs(top) :
            LET m == Call(top, "merge", ref, obj, World, {})
                p == Call(top, "put", ref, obj, World, {})
                gm == Call(top, "get", ref, None, m.w, {})
                gp == Call(top, "get", ref, None, p.w, {})
            IN m.out = p.out /\ m.w = p.w /\ gm.out = gp.out /\ gm.ret = gp.ret

Another(o) == IF Head(o) = "JSONStore" THEN JSONStore(NoStore) ELSE PickleStore(NoStore)

\* C17: two separately constructed JSONStore() (or PickleStore()) instances
\* A and B share no state: a put(r, v) through A changes the result of no
\* get through B, so B.get(r) still fails if nothing was stored through B.
C17_NoSharedState ==
    top \in Defaults =>
        \A ref \in Refs(top), obj \in Objs(top), r2 \in Refs(top) :
            LET p == Call(top, "put", ref, obj, World, {})
                before == Call(Another(top), "get", r2, None, World, {})
                after == Call(Another(top), "get", r2, None, p.w, {})
            IN after.out = before.out /\ after.ret = before.ret

\* C18: for a CacheStore over two DictStores that start with equal contents
\* and are called only through the CacheStore, the cache and the base hold
\* the same value at every reference after any sequence of calls, and get(r)
\* through the CacheStore returns what base.get(r) returns and fails exactly
\* when base.get(r) fails.
C18_CacheMirrorsBase ==
    top \in Mirrors /\ Head(top) = "CacheStore" =>
        /\ data[top[3]] = data[top[2]]
        /\ \A ref \in Refs(top) :
              LET g == Call(top, "get", ref, None, World, {})
                  b == Call(CacheStore_base(top), "get", ref, None, World, {})
              IN g.out = b.out /\ g.ret = b.ret

\* a delete_at through the cache store removed a value while another stays
C18_Witness ==
    /\ top \in Mirrors /\ Head(top) = "CacheStore"
    /\ last.on = top /\ last.op = "delete_at" /\ last.changed
    /\ data[top[2]] # Empty

\* C19: with L = LoggingStore(S, Copier(source = S, target = X)) over two
\* DictStores that start with equal contents and are called only through L,
\* X holds what S holds at every reference after any sequence of calls, and
\* get changes neither store.
C19_ReplicaMirrorsSource ==
    top \in Mirrors /\ Head(top) = "LoggingStore" =>
        /\ data[top[3]] = data[top[2]]
        /\ \A ref \in Refs(top) : Call(top, "get", ref, None, World, {}).w = World

\* a delete_at through the logging store removed a value while another stays
C19_Witness ==
    /\ top \in Mirrors /\ Head(top) = "LoggingStore"
    /\ last.on = top /\ last.op = "delete_at" /\ last.changed
    /\ data[top[3]] # Empty

\* C20: a DiskStoreText or DiskStoreBytes put(r, v) that returns changes only
\* the file at the path of r: for every reference r2 of another path, the
\* path of r with the suffix ".tmp" included, get(r2) returns after the put
\* what it returned before; and the temporary file of put is at a path other
\* than that of r.
C20_PutTouchesOnlyTarget ==
    top \in DiskStores =>
        \A ref \in Refs(top), obj \in Objs(top), r2 \in Refs(top) :
            LET p == Call(top, "put", ref, obj, World, {})
                before == Call(top, "get", r2, None, World, {})
                after == Call(top, "get", r2, None, p.w, {})
            IN p.out = OK =>
                  /\ TempKey(ref) # Key(ref)
                  /\ Key(r2) # Key(ref) => after.out = before.out /\ after.ret = before.ret

====
